---- MODULE Spec2Model ----
(***************************************************************************)
(* Model of server/api.py: the JSON-file record store (carregar_dados,     *)
(* salvar_dados), the task, diagnostic, fix and suggestion handlers and    *)
(* the status report.                                                      *)
(*                                                                         *)
(* Encoding.  A JSON object is a TLA+ record, a JSON array a sequence.     *)
(* An ISO-8601 timestamp string is a natural number: the code only ever    *)
(* compares timestamps (lexicographically, which for isoformat() strings   *)
(* is chronological), so a total order is all that is kept; 0 stands for   *)
(* a null timestamp.  An optional query parameter or body field is a       *)
(* sequence: <<>> when absent, <<v>> when supplied with v.                 *)
(***************************************************************************)
EXTENDS Integers, Sequences, FiniteSets, TLC

VARIABLES disco, relogio, resposta, proc

vars == <<disco, relogio, resposta, proc>>

(***************************************************************************)
(* Bounds of the model: tasks stored and clock values under Spec, records  *)
(* stored in all four collections under SpecConsulta, requests taken by    *)
(* each worker under SpecConcorrente.                                      *)
(***************************************************************************)
MaxTarefas == 2
MaxRelogio == 2
MaxRegistros == 3
MaxPedidos == 2

(***************************************************************************)
(* Storage files (api.py 53-59).                                           *)
(***************************************************************************)
TAREFAS_FILE == "data/tarefas.json"
DIAGNOSTICOS_FILE == "data/diagnosticos.json"
CORRECOES_FILE == "data/correcoes.json"
SUGESTOES_FILE == "data/sugestoes.json"

Arquivos == {TAREFAS_FILE, DIAGNOSTICOS_FILE, CORRECOES_FILE, SUGESTOES_FILE}

\* What a file on disk can be: absent, a JSON array, text that is not JSON,
\* or bytes that are not UTF-8.
Ausente == [tipo |-> "ausente", dados |-> <<>>]
JsonInvalido == [tipo |-> "json_invalido", dados |-> <<>>]
Utf8Invalido == [tipo |-> "utf8_invalido", dados |-> <<>>]
ArquivoJson(dados) == [tipo |-> "json", dados |-> dados]

(***************************************************************************)
(* carregar_dados (api.py 62-73).  open(..., encoding='utf-8') followed by *)
(* json.load raises json.JSONDecodeError on text that is not JSON and      *)
(* UnicodeDecodeError on bytes that are not UTF-8; the except clause names *)
(* JSONDecodeError and FileNotFoundError only.                             *)
(***************************************************************************)
ExcecaoLeitura(conteudo) ==
    CASE conteudo.tipo = "json_invalido" -> "JSONDecodeError"
      [] conteudo.tipo = "utf8_invalido" -> "UnicodeDecodeError"
      [] OTHER -> "nenhuma"

ExcecoesTratadas == {"JSONDecodeError", "FileNotFoundError"}

\* The result of a call: erro = "nenhuma" and the list returned, or the
\* exception that escapes to the caller.
carregar_dados(arquivo) ==
    LET conteudo == disco[arquivo]
        excecao == ExcecaoLeitura(conteudo)
    IN  IF conteudo.tipo = "ausente"
        THEN [erro |-> "nenhuma", dados |-> <<>>]
        ELSE IF excecao = "nenhuma"
        THEN [erro |-> "nenhuma", dados |-> conteudo.dados]
        ELSE IF excecao \in ExcecoesTratadas
        THEN [erro |-> "nenhuma", dados |-> <<>>]
        ELSE [erro |-> excecao, dados |-> <<>>]

\* salvar_dados (api.py 75-77): the whole list overwrites the file.  Every
\* value of the model is JSON-native (string, number, boolean, object,
\* array), on which json.dump followed by json.load is the identity.
salvar_dados(arquivo, dados) ==
    [disco EXCEPT ![arquivo] = ArquivoJson(dados)]

(***************************************************************************)
(* Optional values and dictionaries.                                       *)
(***************************************************************************)
Opcional(S) == {<<>>} \cup {<<v>> : v \in S}
\* `if estado:` / `is not None` (api.py 122, 207) for a parameter that, when
\* supplied, is a non-empty string or a boolean.
Presente(opt) == Len(opt) > 0

\* A dictionary with the key k when opt is supplied, the empty one otherwise.
Campo(k, opt) == IF Presente(opt) THEN k :> opt[1] ELSE <<>>

\* dict.update (api.py 152): supplied keys overwrite, the others stay.
DictUpdate(d, atualizacao) ==
    [k \in (DOMAIN d) \cup (DOMAIN atualizacao) |->
        IF k \in DOMAIN atualizacao THEN atualizacao[k] ELSE d[k]]

\* uuid.uuid4() (api.py 13, 25, 34, 43) when it generates the id of the
\* record appended to `dados`: an identifier no stored record holds (records
\* are never deleted and no caller supplies an identifier of this pool).
UuidPool == <<"u1", "u2", "u3", "u4", "u5", "u6">>
Uuid4(dados) == UuidPool[Len(dados) + 1]

(***************************************************************************)
(* Tarefa (api.py 12-22): id and timestamp_criacao default at construction *)
(* when the body does not supply them.                                     *)
(***************************************************************************)
Tarefa(idOpt, estado, prioridade, tsOpt) ==
    [id |-> IF Presente(idOpt) THEN idOpt[1] ELSE Uuid4(disco[TAREFAS_FILE].dados),
     estado |-> estado,
     prioridade |-> prioridade,
     timestamp_criacao |-> IF Presente(tsOpt) THEN tsOpt[1] ELSE relogio,
     timestamp_atualizacao |-> 0]

\* Index of the first record whose id is tarefa_id, 0 when there is none
\* (the for loops of api.py 140-142 and 149-150).
PrimeiroIndice(tarefas, tarefa_id) ==
    IF \E i \in 1..Len(tarefas) : tarefas[i].id = tarefa_id
    THEN CHOOSE i \in 1..Len(tarefas) :
            /\ tarefas[i].id = tarefa_id
            /\ \A j \in 1..(i - 1) : tarefas[j].id # tarefa_id
    ELSE 0

SemResposta == [op |-> "nenhuma", status |-> 0, args |-> <<>>, corpo |-> <<>>]
Erro500(op, args, excecao) == [op |-> op, status |-> 500, args |-> args, corpo |-> excecao]

(***************************************************************************)
(* list.sort(key=..., reverse=...) (api.py 130, 183, 213, 243).  chaves[i] *)
(* is the key tuple of s[i]; tuples compare lexicographically; the sort is *)
(* stable in both directions: records with equal keys keep their order.    *)
(***************************************************************************)
ChaveMenor(k1, k2) ==
    \E n \in 1..Len(k1) :
        /\ k1[n] < k2[n]
        /\ \A m \in 1..(n - 1) : k1[m] = k2[m]

\* Whether the record at index j is placed before the record at index i.
VemAntes(chaves, reverse, j, i) ==
    \/ IF reverse THEN ChaveMenor(chaves[i], chaves[j])
                  ELSE ChaveMenor(chaves[j], chaves[i])
    \/ (chaves[i] = chaves[j] /\ j < i)

Posicao(chaves, reverse, i) ==
    1 + Cardinality({j \in 1..Len(chaves) : j # i /\ VemAntes(chaves, reverse, j, i)})

Ordenar(s, chaves, reverse) ==
    [p \in 1..Len(s) |-> s[CHOOSE i \in 1..Len(s) : Posicao(chaves, reverse, i) = p]]

\* The slice taken one record too long.
FatiarUmAMais(dados, limite) ==
    SubSeq(dados, 1, IF limite + 1 < Len(dados) THEN limite + 1 ELSE Len(dados))

\* dados[:limite] (api.py 135, 188, 215, 248).
Fatiar(dados, limite) ==
    SubSeq(dados, 1, IF limite < Len(dados) THEN limite ELSE Len(dados))

\* limite: int = Query(100, ge=1, le=1000) (api.py 117): the default and
\* the range outside which the request never reaches the handler.
LimitePadrao == 100
LimiteMin == 1
LimiteMax == 1000
Limites == {l \in {1, LimitePadrao} : LimiteMin <= l /\ l <= LimiteMax}

(***************************************************************************)
(* Task handlers.                                                          *)
(***************************************************************************)
\* The rank table of api.py 131 and its default for a value not in it.
RankPrioridadeTarefa(prioridade) ==
    CASE prioridade = "critica" -> 0
      [] prioridade = "alta" -> 1
      [] prioridade = "normal" -> 2
      [] prioridade = "baixa" -> 3
      [] OTHER -> 2

ChaveTarefa(x) == <<RankPrioridadeTarefa(x.prioridade), x.timestamp_criacao>>

\* The filters and the sort of listar_tarefas (api.py 121-133).
FiltrarOrdenarTarefas(tarefas, estado, prioridade) ==
    LET porEstado == IF Presente(estado)
                     THEN SelectSeq(tarefas, LAMBDA t : t.estado = estado[1])
                     ELSE tarefas
        porPrioridade == IF Presente(prioridade)
                         THEN SelectSeq(porEstado, LAMBDA t : t.prioridade = prioridade[1])
                         ELSE porEstado
    IN  Ordenar(porPrioridade,
                [i \in 1..Len(porPrioridade) |-> ChaveTarefa(porPrioridade[i])], FALSE)

\* criar_tarefa (api.py 105-110).
criar_tarefa(tarefa) ==
    LET carga == carregar_dados(TAREFAS_FILE)
    IN  IF carga.erro # "nenhuma"
        THEN /\ resposta' = Erro500("criar_tarefa", tarefa, carga.erro)
             /\ UNCHANGED disco
        ELSE /\ disco' = salvar_dados(TAREFAS_FILE, Append(carga.dados, tarefa))
             /\ resposta' = [op |-> "criar_tarefa", status |-> 201,
                             args |-> tarefa, corpo |-> tarefa]

\* listar_tarefas (api.py 112-135).
listar_tarefas(estado, prioridade, limite) ==
    LET carga == carregar_dados(TAREFAS_FILE)
        args == [estado |-> estado, prioridade |-> prioridade, limite |-> limite]
    IN  /\ UNCHANGED disco
        /\ resposta' =
             IF carga.erro # "nenhuma"
             THEN Erro500("listar_tarefas", args, carga.erro)
             ELSE [op |-> "listar_tarefas", status |-> 200, args |-> args,
                   corpo |-> Fatiar(FiltrarOrdenarTarefas(carga.dados, estado, prioridade),
                                    limite)]

\* obter_tarefa (api.py 137-143).
obter_tarefa(tarefa_id) ==
    LET carga == carregar_dados(TAREFAS_FILE)
        i == PrimeiroIndice(carga.dados, tarefa_id)
    IN  /\ UNCHANGED disco
        /\ resposta' =
             IF carga.erro # "nenhuma"
             THEN Erro500("obter_tarefa", tarefa_id, carga.erro)
             ELSE IF i = 0
             THEN [op |-> "obter_tarefa", status |-> 404, args |-> tarefa_id,
                   corpo |-> <<>>]
             ELSE [op |-> "obter_tarefa", status |-> 200, args |-> tarefa_id,
                   corpo |-> carga.dados[i]]

\* Mesclar without the timestamp refresh of api.py 154.
MesclarSemTimestamp(tarefa, atualizacao) == DictUpdate(tarefa, atualizacao)

\* The record atualizar_tarefa writes at the matching index (api.py 152-154).
Mesclar(tarefa, atualizacao) ==
    [DictUpdate(tarefa, atualizacao) EXCEPT !["timestamp_atualizacao"] = relogio]

\* atualizar_tarefa (api.py 145-158).
atualizar_tarefa(tarefa_id, atualizacao) ==
    LET carga == carregar_dados(TAREFAS_FILE)
        tarefas == carga.dados
        i == PrimeiroIndice(tarefas, tarefa_id)
        args == [tarefa_id |-> tarefa_id, atualizacao |-> atualizacao]
    IN  IF carga.erro # "nenhuma"
        THEN /\ resposta' = Erro500("atualizar_tarefa", args, carga.erro)
             /\ UNCHANGED disco
        ELSE IF i = 0
        THEN /\ resposta' = [op |-> "atualizar_tarefa", status |-> 404,
                             args |-> args, corpo |-> <<>>]
             /\ UNCHANGED disco
        ELSE LET novas == [tarefas EXCEPT ![i] = Mesclar(tarefas[i], atualizacao)]
             IN  /\ disco' = salvar_dados(TAREFAS_FILE, novas)
                 /\ resposta' = [op |-> "atualizar_tarefa", status |-> 200,
                                 args |-> args, corpo |-> novas[i]]

(***************************************************************************)
(* Requests served one at a time (a single event loop: the handlers hold   *)
(* no await, so each runs to completion).  The bodies and parameters are   *)
(* drawn from small sets; enumerated fields are not validated, so a value  *)
(* outside the documented ones is an input like any other.                 *)
(***************************************************************************)
IdsCliente == {"a"}
EstadosCriar == {"pendente"}
PrioridadesCriar == {"normal"}

TarefasArmazenadas == disco[TAREFAS_FILE].dados

CriarTarefa ==
    /\ Len(TarefasArmazenadas) < MaxTarefas
    /\ \E idOpt \in Opcional(IdsCliente),
          estado \in EstadosCriar, prioridade \in PrioridadesCriar :
          /\ criar_tarefa(Tarefa(idOpt, estado, prioridade, <<>>))
    /\ UNCHANGED <<relogio, proc>>

ListarTarefas ==
    /\ \E prioridade \in Opcional({"baixa"}), limite \in Limites :
          listar_tarefas(<<>>, prioridade, limite)
    /\ UNCHANGED <<relogio, proc>>

ObterTarefa ==
    /\ \E tarefa_id \in IdsCliente \cup {UuidPool[1]} : obter_tarefa(tarefa_id)
    /\ UNCHANGED <<relogio, proc>>

\* The partial bodies of PATCH /tarefa/{id}: any subset of these keys.
Atualizacoes ==
    {Campo("id", idOpt) @@ Campo("estado", estado) @@ Campo("timestamp_atualizacao", ts) :
        idOpt \in Opcional(IdsCliente), estado \in Opcional({"concluida"}),
        ts \in Opcional({0})}

AtualizarTarefa ==
    /\ \E tarefa_id \in IdsCliente \cup {UuidPool[1]}, atualizacao \in Atualizacoes :
          atualizar_tarefa(tarefa_id, atualizacao)
    /\ UNCHANGED <<relogio, proc>>

\* Time passes between requests (datetime.now()).
PassarTempo ==
    /\ relogio < MaxRelogio
    /\ relogio' = relogio + 1
    /\ UNCHANGED <<disco, resposta, proc>>

\* After start-up: DATA_DIR exists and holds no file (api.py 53-54).
Init ==
    /\ disco = [a \in Arquivos |-> Ausente]
    /\ relogio = 1
    /\ resposta = SemResposta
    /\ proc = <<>>

Next ==
    \/ CriarTarefa
    \/ ObterTarefa
    \/ AtualizarTarefa
    \/ PassarTempo

Spec == Init /\ [][Next]_vars

(***************************************************************************)
(* Diagnostic, fix and suggestion handlers.                                *)
(***************************************************************************)
\* Diagnostico, Correcao, Sugestao (api.py 24-50): id and timestamp default
\* at construction when the body does not supply them.
Diagnostico(tipo, severidade, tsOpt) ==
    [id |-> Uuid4(disco[DIAGNOSTICOS_FILE].dados),
     tipo |-> tipo,
     severidade |-> severidade,
     timestamp |-> IF Presente(tsOpt) THEN tsOpt[1] ELSE relogio]

Correcao(diagnostico_id, aplicada, tsOpt) ==
    [id |-> Uuid4(disco[CORRECOES_FILE].dados),
     diagnostico_id |-> diagnostico_id,
     aplicada |-> aplicada,
     timestamp |-> IF Presente(tsOpt) THEN tsOpt[1] ELSE relogio]

Sugestao(tipo, prioridade, implementada, tsOpt) ==
    [id |-> Uuid4(disco[SUGESTOES_FILE].dados),
     tipo |-> tipo,
     prioridade |-> prioridade,
     implementada |-> implementada,
     timestamp |-> IF Presente(tsOpt) THEN tsOpt[1] ELSE relogio]

\* criar_diagnostico, criar_correcao, criar_sugestao (api.py 161-166,
\* 191-196, 218-223): load, append, save, return the record.
criar_registro(op, arquivo, registro) ==
    LET carga == carregar_dados(arquivo)
    IN  IF carga.erro # "nenhuma"
        THEN /\ resposta' = Erro500(op, registro, carga.erro)
             /\ UNCHANGED disco
        ELSE /\ disco' = salvar_dados(arquivo, Append(carga.dados, registro))
             /\ resposta' = [op |-> op, status |-> 201,
                             args |-> registro, corpo |-> registro]

\* The rank table with a middle rank as the default.
RankSeveridadePadraoMeio(severidade) ==
    CASE severidade = "critico" -> 0
      [] severidade = "erro" -> 1
      [] severidade = "aviso" -> 2
      [] severidade = "info" -> 3
      [] OTHER -> 2

\* The rank table of api.py 184 and its default for a value not in it.
RankSeveridade(severidade) ==
    CASE severidade = "critico" -> 0
      [] severidade = "erro" -> 1
      [] severidade = "aviso" -> 2
      [] severidade = "info" -> 3
      [] OTHER -> 3

ChaveDiagnostico(x) == <<RankSeveridade(x.severidade), x.timestamp>>

\* The filters and the sort of listar_diagnosticos (api.py 176-186).
FiltrarOrdenarDiagnosticos(diagnosticos, tipo, severidade) ==
    LET porTipo == IF Presente(tipo)
                   THEN SelectSeq(diagnosticos, LAMBDA d : d.tipo = tipo[1])
                   ELSE diagnosticos
        porSeveridade == IF Presente(severidade)
                         THEN SelectSeq(porTipo, LAMBDA d : d.severidade = severidade[1])
                         ELSE porTipo
    IN  Ordenar(porSeveridade,
                [i \in 1..Len(porSeveridade) |-> ChaveDiagnostico(porSeveridade[i])], TRUE)

\* listar_diagnosticos (api.py 168-188).
listar_diagnosticos(tipo, severidade, limite) ==
    LET carga == carregar_dados(DIAGNOSTICOS_FILE)
        args == [tipo |-> tipo, severidade |-> severidade, limite |-> limite]
    IN  /\ UNCHANGED disco
        /\ resposta' =
             IF carga.erro # "nenhuma"
             THEN Erro500("listar_diagnosticos", args, carga.erro)
             ELSE [op |-> "listar_diagnosticos", status |-> 200, args |-> args,
                   corpo |-> Fatiar(FiltrarOrdenarDiagnosticos(carga.dados, tipo, severidade),
                                    limite)]

\* The filters and the sort of listar_correcoes (api.py 206-213).
FiltrarOrdenarCorrecoes(correcoes, aplicada, diagnostico_id) ==
    LET porAplicada == IF Presente(aplicada)
                       THEN SelectSeq(correcoes, LAMBDA c : c.aplicada = aplicada[1])
                       ELSE correcoes
        porDiagnostico == IF Presente(diagnostico_id)
                          THEN SelectSeq(porAplicada,
                                         LAMBDA c : c.diagnostico_id = diagnostico_id[1])
                          ELSE porAplicada
    IN  Ordenar(porDiagnostico,
                [i \in 1..Len(porDiagnostico) |-> <<porDiagnostico[i].timestamp>>], TRUE)

\* listar_correcoes (api.py 198-215).
listar_correcoes(aplicada, diagnostico_id, limite) ==
    LET carga == carregar_dados(CORRECOES_FILE)
        args == [aplicada |-> aplicada, diagnostico_id |-> diagnostico_id,
                 limite |-> limite]
    IN  /\ UNCHANGED disco
        /\ resposta' =
             IF carga.erro # "nenhuma"
             THEN Erro500("listar_correcoes", args, carga.erro)
             ELSE [op |-> "listar_correcoes", status |-> 200, args |-> args,
                   corpo |-> Fatiar(FiltrarOrdenarCorrecoes(carga.dados, aplicada,
                                                            diagnostico_id), limite)]

\* The rank table of api.py 244 and its default for a value not in it.
RankPrioridadeSugestao(prioridade) ==
    CASE prioridade = "alta" -> 0
      [] prioridade = "media" -> 1
      [] prioridade = "baixa" -> 2
      [] OTHER -> 1

ChaveSugestao(x) == <<RankPrioridadeSugestao(x.prioridade), x.timestamp>>

\* The filters and the sort of listar_sugestoes (api.py 234-246).
FiltrarOrdenarSugestoes(sugestoes, tipo, prioridade, implementada) ==
    LET porTipo == IF Presente(tipo)
                   THEN SelectSeq(sugestoes, LAMBDA x : x.tipo = tipo[1])
                   ELSE sugestoes
        porPrioridade == IF Presente(prioridade)
                         THEN SelectSeq(porTipo, LAMBDA x : x.prioridade = prioridade[1])
                         ELSE porTipo
        porImplementada == IF Presente(implementada)
                           THEN SelectSeq(porPrioridade,
                                          LAMBDA x : x.implementada = implementada[1])
                           ELSE porPrioridade
    IN  Ordenar(porImplementada,
                [i \in 1..Len(porImplementada) |-> ChaveSugestao(porImplementada[i])], FALSE)

\* listar_sugestoes (api.py 225-248).
listar_sugestoes(tipo, prioridade, implementada, limite) ==
    LET carga == carregar_dados(SUGESTOES_FILE)
        args == [tipo |-> tipo, prioridade |-> prioridade,
                 implementada |-> implementada, limite |-> limite]
    IN  /\ UNCHANGED disco
        /\ resposta' =
             IF carga.erro # "nenhuma"
             THEN Erro500("listar_sugestoes", args, carga.erro)
             ELSE [op |-> "listar_sugestoes", status |-> 200, args |-> args,
                   corpo |-> Fatiar(FiltrarOrdenarSugestoes(carga.dados, tipo, prioridade,
                                                            implementada), limite)]

(***************************************************************************)
(* obter_status (api.py 251-297).                                          *)
(***************************************************************************)
\* The counting loop that stores 1 instead of incrementing.
ContarPorSemIncremento(dados, campo) ==
    [v \in {dados[i][campo] : i \in 1..Len(dados)} |-> 1]

\* The counting loops of api.py 259-268: a dictionary from each value of
\* `campo` met to the number of records that hold it.
RECURSIVE ContarPor(_, _)
ContarPor(dados, campo) ==
    IF dados = <<>>
    THEN <<>>
    ELSE LET contagem == ContarPor(SubSeq(dados, 1, Len(dados) - 1), campo)
             valor == dados[Len(dados)][campo]
             anterior == IF valor \in DOMAIN contagem THEN contagem[valor] ELSE 0
         IN  DictUpdate(contagem, valor :> (anterior + 1))

\* sum(1 for x in dados if x.get(campo, False)) (api.py 271, 274).
ContarVerdadeiros(dados, campo) ==
    Cardinality({i \in 1..Len(dados) : dados[i][campo]})

obter_status ==
    LET t == carregar_dados(TAREFAS_FILE)
        d == carregar_dados(DIAGNOSTICOS_FILE)
        c == carregar_dados(CORRECOES_FILE)
        g == carregar_dados(SUGESTOES_FILE)
        erros == {r.erro : r \in {t, d, c, g}} \ {"nenhuma"}
        aplicadas == ContarVerdadeiros(c.dados, "aplicada")
        implementadas == ContarVerdadeiros(g.dados, "implementada")
    IN  /\ UNCHANGED disco
        /\ resposta' =
             IF erros # {}
             THEN Erro500("obter_status", <<>>, CHOOSE e \in erros : TRUE)
             ELSE [op |-> "obter_status", status |-> 200, args |-> <<>>,
                   corpo |->
                     [tarefas |-> [total |-> Len(t.dados),
                                   por_estado |-> ContarPor(t.dados, "estado")],
                      diagnosticos |-> [total |-> Len(d.dados),
                                        por_severidade |-> ContarPor(d.dados, "severidade")],
                      correcoes |-> [total |-> Len(c.dados),
                                     aplicadas |-> aplicadas,
                                     pendentes |-> Len(c.dados) - aplicadas],
                      sugestoes |-> [total |-> Len(g.dados),
                                     implementadas |-> implementadas,
                                     pendentes |-> Len(g.dados) - implementadas]]]

(***************************************************************************)
(* The four collections together: records of every kind are created with  *)
(* bodies drawn from small sets (documented and undocumented enum values,  *)
(* default and caller-supplied timestamps), then listed and counted.       *)
(***************************************************************************)
DiagnosticosArmazenados == disco[DIAGNOSTICOS_FILE].dados
CorrecoesArmazenadas == disco[CORRECOES_FILE].dados
SugestoesArmazenadas == disco[SUGESTOES_FILE].dados

TotalRegistros ==
    Len(TarefasArmazenadas) + Len(DiagnosticosArmazenados)
        + Len(CorrecoesArmazenadas) + Len(SugestoesArmazenadas)

Nulo == "null"
TimestampsCliente == {2}
PrioridadesTarefa == {"critica", "alta", "baixa", "urgente"}
Severidades == {"critico", "erro", "aviso", "info", "fatal"}
PrioridadesSugestao == {"alta", "baixa", "urgente"}

CriarTarefaQualquer ==
    /\ TotalRegistros < MaxRegistros
    /\ \E prioridade \in PrioridadesTarefa :
          criar_tarefa(Tarefa(<<>>, "pendente", prioridade, <<>>))
    /\ UNCHANGED <<relogio, proc>>

CriarDiagnostico ==
    /\ TotalRegistros < MaxRegistros
    /\ \E severidade \in Severidades, tsOpt \in Opcional(TimestampsCliente) :
          criar_registro("criar_diagnostico", DIAGNOSTICOS_FILE,
                         Diagnostico("sistema", severidade, tsOpt))
    /\ UNCHANGED <<relogio, proc>>

CriarCorrecao ==
    /\ TotalRegistros < MaxRegistros
    /\ \E aplicada \in BOOLEAN, tsOpt \in Opcional(TimestampsCliente) :
          criar_registro("criar_correcao", CORRECOES_FILE,
                         Correcao(Nulo, aplicada, tsOpt))
    /\ UNCHANGED <<relogio, proc>>

CriarSugestao ==
    /\ TotalRegistros < MaxRegistros
    /\ \E prioridade \in PrioridadesSugestao, implementada \in BOOLEAN :
          criar_registro("criar_sugestao", SUGESTOES_FILE,
                         Sugestao("otimizacao", prioridade, implementada, <<>>))
    /\ UNCHANGED <<relogio, proc>>

ListarDiagnosticos ==
    /\ \E severidade \in Opcional({"info"}), limite \in Limites :
          listar_diagnosticos(<<>>, severidade, limite)
    /\ UNCHANGED <<relogio, proc>>

ListarCorrecoes ==
    /\ \E aplicada \in Opcional({TRUE}), limite \in Limites :
          listar_correcoes(aplicada, <<>>, limite)
    /\ UNCHANGED <<relogio, proc>>

ListarSugestoes ==
    /\ \E implementada \in Opcional({FALSE}), limite \in Limites :
          listar_sugestoes(<<>>, <<>>, implementada, limite)
    /\ UNCHANGED <<relogio, proc>>

ObterStatus ==
    /\ obter_status
    /\ UNCHANGED <<relogio, proc>>

NextConsulta ==
    \/ CriarTarefaQualquer
    \/ CriarDiagnostico
    \/ CriarCorrecao
    \/ CriarSugestao
    \/ ListarTarefas
    \/ ListarDiagnosticos
    \/ ListarCorrecoes
    \/ ListarSugestoes
    \/ ObterStatus

SpecConsulta == Init /\ [][NextConsulta]_vars

(***************************************************************************)
(* Damaged files.  salvar_dados rewrites the file in place (open(.., 'w')  *)
(* truncates, json.dump then writes the text, non-ASCII characters as raw  *)
(* UTF-8), so a write that is interrupted, or a file edited from outside,  *)
(* leaves text that is not JSON or bytes that are not UTF-8 (a multi-byte  *)
(* character cut in two).  The handlers then run on what is there.         *)
(***************************************************************************)
DanificarArquivo ==
    /\ \E arquivo \in Arquivos, conteudo \in {JsonInvalido, Utf8Invalido} :
          disco' = [disco EXCEPT ![arquivo] = conteudo]
    /\ UNCHANGED <<relogio, resposta, proc>>

NextCarga ==
    \/ DanificarArquivo
    \/ CriarTarefa
    \/ ObterTarefa
    \/ AtualizarTarefa
    \/ ListarTarefas
    \/ ListarDiagnosticos
    \/ ListarCorrecoes
    \/ ListarSugestoes
    \/ ObterStatus

SpecCarga == Init /\ [][NextCarga]_vars

(***************************************************************************)
(* Requests served by several worker processes over the same data          *)
(* directory.  Nothing in a handler locks the file, so between a worker's  *)
(* carregar_dados and its salvar_dados another worker may load and save.   *)
(* proc[w] is worker w's request: pc, the operation and its arguments, the *)
(* list it loaded (the handler's local `tarefas`), the response, and the   *)
(* number of requests w has taken.                                         *)
(***************************************************************************)
Workers == {1, 2}

Ocioso == [pc |-> "ocioso", op |-> "nenhuma", args |-> <<>>, tarefas |-> <<>>,
           status |-> 0, corpo |-> <<>>, n |-> 0]

AtualizacoesConcorrentes == {Campo("estado", <<"concluida">>), Campo("prioridade", <<"alta">>)}

\* The list read again from the file at the moment of saving.
ListaRelida(w) == carregar_dados(TAREFAS_FILE).dados

\* The list a handler appends to or patches and then saves: the one it
\* loaded at api.py 107 / 147.
ListaDoHandler(w) == proc[w].tarefas

\* api.py 107 and 147: the request arrives and the handler loads the file.
Carregar(w, op, args) ==
    LET carga == carregar_dados(TAREFAS_FILE)
    IN  /\ proc[w].pc \in {"ocioso", "respondido"}
        /\ proc[w].n < MaxPedidos
        /\ proc' = [proc EXCEPT ![w] =
                      IF carga.erro # "nenhuma"
                      THEN [pc |-> "respondido", op |-> op, args |-> args,
                            tarefas |-> <<>>, status |-> 500, corpo |-> carga.erro,
                            n |-> proc[w].n + 1]
                      ELSE [pc |-> "carregado", op |-> op, args |-> args,
                            tarefas |-> carga.dados, status |-> 0, corpo |-> <<>>,
                            n |-> proc[w].n + 1]]
        /\ UNCHANGED <<disco, relogio, resposta>>

CarregarParaCriar(w) ==
    \E id \in {"a", "b"} :
        Carregar(w, "criar_tarefa", Tarefa(<<id>>, "pendente", "normal", <<>>))

CarregarParaAtualizar(w) ==
    \E atualizacao \in AtualizacoesConcorrentes :
        Carregar(w, "atualizar_tarefa", [tarefa_id |-> "a", atualizacao |-> atualizacao])

\* api.py 108-110: append, save, return.
SalvarCriacao(w) ==
    /\ proc[w].pc = "carregado"
    /\ proc[w].op = "criar_tarefa"
    /\ disco' = salvar_dados(TAREFAS_FILE, Append(ListaDoHandler(w), proc[w].args))
    /\ proc' = [proc EXCEPT ![w].pc = "respondido", ![w].status = 201,
                            ![w].corpo = proc[w].args]
    /\ UNCHANGED <<relogio, resposta>>

\* api.py 149-158: scan, merge, save, return; 404 when no id matches.
SalvarAtualizacao(w) ==
    /\ proc[w].pc = "carregado"
    /\ proc[w].op = "atualizar_tarefa"
    /\ LET tarefas == ListaDoHandler(w)
           i == PrimeiroIndice(tarefas, proc[w].args.tarefa_id)
       IN  IF i = 0
           THEN /\ proc' = [proc EXCEPT ![w].pc = "respondido", ![w].status = 404]
                /\ UNCHANGED disco
           ELSE LET novas == [tarefas EXCEPT
                                 ![i] = Mesclar(tarefas[i], proc[w].args.atualizacao)]
                IN  /\ disco' = salvar_dados(TAREFAS_FILE, novas)
                    /\ proc' = [proc EXCEPT ![w].pc = "respondido", ![w].status = 200,
                                            ![w].corpo = novas[i]]
    /\ UNCHANGED <<relogio, resposta>>

InitConcorrente ==
    /\ disco = [a \in Arquivos |-> Ausente]
    /\ relogio = 1
    /\ resposta = SemResposta
    /\ proc = [w \in Workers |-> Ocioso]

NextConcorrente ==
    \E w \in Workers :
        \/ CarregarParaCriar(w)
        \/ CarregarParaAtualizar(w)
        \/ SalvarCriacao(w)
        \/ SalvarAtualizacao(w)

SpecConcorrente == InitConcorrente /\ [][NextConcorrente]_vars

(***************************************************************************)
(* Claims about the task collection, checked under Spec.                   *)
(***************************************************************************)
\* A step of Spec that is a request handled by `op`: every handler leaves
\* the clock alone and overwrites resposta with its own name.
PassoDe(op) == relogio' = relogio /\ resposta'.op = op

\* C1: no two stored tasks have the same id.
IdsUnicos ==
    \A i, j \in 1..Len(TarefasArmazenadas) :
        i # j => TarefasArmazenadas[i].id # TarefasArmazenadas[j].id

\* C3: a successful create-task immediately followed by get-by-id with the
\* id of the created record returns the record just created.
CriarDepoisObter ==
    [][(/\ resposta.op = "criar_tarefa"
        /\ resposta.status = 201
        /\ PassoDe("obter_tarefa")
        /\ resposta'.args = resposta.corpo.id)
       => (resposta'.status = 200 /\ resposta'.corpo = resposta.corpo)]_vars

\* C4 as stated: a successful update-task changes, in the matching record,
\* only the fields named in the body, each set to its supplied value, plus
\* timestamp_atualizacao, set to the current time; the other fields and the
\* other records are unchanged; the merged record is persisted and returned.
AtualizarCamposFornecidos ==
    [][(PassoDe("atualizar_tarefa") /\ resposta'.status = 200)
       => LET antes == TarefasArmazenadas
              depois == TarefasArmazenadas'
              atualizacao == resposta'.args.atualizacao
              i == PrimeiroIndice(antes, resposta'.args.tarefa_id)
          IN  /\ i # 0
              /\ Len(depois) = Len(antes)
              /\ \A j \in 1..Len(antes) : j # i => depois[j] = antes[j]
              /\ DOMAIN depois[i] = (DOMAIN antes[i]) \cup (DOMAIN atualizacao)
              /\ \A k \in DOMAIN atualizacao : depois[i][k] = atualizacao[k]
              /\ depois[i].timestamp_atualizacao = relogio
              /\ \A k \in (DOMAIN antes[i]) \ ((DOMAIN atualizacao) \cup {"timestamp_atualizacao"}) :
                    depois[i][k] = antes[i][k]
              /\ resposta'.corpo = depois[i]]_vars

\* C4 as amended: the same, except that timestamp_atualizacao is set to the
\* current time even when the body supplies a value for it.
AtualizarCamposFornecidosExcetoTimestamp ==
    [][(PassoDe("atualizar_tarefa") /\ resposta'.status = 200)
       => LET antes == TarefasArmazenadas
              depois == TarefasArmazenadas'
              atualizacao == resposta'.args.atualizacao
              i == PrimeiroIndice(antes, resposta'.args.tarefa_id)
          IN  /\ i # 0
              /\ Len(depois) = Len(antes)
              /\ \A j \in 1..Len(antes) : j # i => depois[j] = antes[j]
              /\ DOMAIN depois[i] = (DOMAIN antes[i]) \cup (DOMAIN atualizacao)
              /\ \A k \in (DOMAIN atualizacao) \ {"timestamp_atualizacao"} :
                    depois[i][k] = atualizacao[k]
              /\ depois[i].timestamp_atualizacao = relogio
              /\ \A k \in (DOMAIN antes[i]) \ ((DOMAIN atualizacao) \cup {"timestamp_atualizacao"}) :
                    depois[i][k] = antes[i][k]
              /\ resposta'.corpo = depois[i]]_vars

\* A successful update of one of two stored tasks, some time after it was
\* created, with a body that names estado and not id.
AtualizacaoParcialFeita ==
    /\ resposta.op = "atualizar_tarefa"
    /\ resposta.status = 200
    /\ Len(TarefasArmazenadas) = 2
    /\ DOMAIN resposta.args.atualizacao = {"estado"}
    /\ resposta.corpo.estado = "concluida"
    /\ resposta.corpo.timestamp_atualizacao > resposta.corpo.timestamp_criacao
    /\ \E i \in 1..2 : TarefasArmazenadas[i] = resposta.corpo

\* C5: the id of a stored task never changes.
IdImutavel ==
    [][\A i \in 1..Len(TarefasArmazenadas) :
          TarefasArmazenadas'[i].id = TarefasArmazenadas[i].id]_vars

(***************************************************************************)
(* Claims about the listings and the status report, checked under          *)
(* SpecConsulta.                                                           *)
(***************************************************************************)
OperacoesDeListagem ==
    {"listar_tarefas", "listar_diagnosticos", "listar_correcoes", "listar_sugestoes"}

Ids(registros) == [i \in 1..Len(registros) |-> registros[i].id]

\* The documented severities, most severe first.
SeveridadesDocumentadas == <<"critico", "erro", "aviso", "info">>
Gravidade(severidade) ==
    CHOOSE n \in 1..Len(SeveridadesDocumentadas) : SeveridadesDocumentadas[n] = severidade
EhDocumentada(severidade) ==
    \E n \in 1..Len(SeveridadesDocumentadas) : SeveridadesDocumentadas[n] = severidade

\* C2: a diagnostics listing is ordered most severe first: no diagnostic is
\* returned after a less severe one.
DiagnosticosMaisSeverosPrimeiro ==
    (resposta.op = "listar_diagnosticos" /\ resposta.status = 200)
    => \A i, j \in 1..Len(resposta.corpo) :
          (/\ i < j
           /\ EhDocumentada(resposta.corpo[i].severidade)
           /\ EhDocumentada(resposta.corpo[j].severidade))
          => Gravidade(resposta.corpo[i].severidade)
                <= Gravidade(resposta.corpo[j].severidade)

\* `registros` with every value of `campo` outside `conhecidos` replaced by
\* `substituto`.
ComoSeFosse(registros, campo, conhecidos, substituto) ==
    [i \in 1..Len(registros) |->
        IF registros[i][campo] \in conhecidos
        THEN registros[i]
        ELSE [registros[i] EXCEPT ![campo] = substituto]]

PrioridadesTarefaConhecidas == {"critica", "alta", "normal", "baixa"}
SeveridadesConhecidas == {"critico", "erro", "aviso", "info"}
PrioridadesSugestaoConhecidas == {"alta", "media", "baixa"}

\* The order in which each unfiltered listing would return the stored
\* records if every unrecognised enum value were `substituto`.
OrdemTarefasComo(substituto) ==
    Ids(FiltrarOrdenarTarefas(
            ComoSeFosse(TarefasArmazenadas, "prioridade",
                        PrioridadesTarefaConhecidas, substituto), <<>>, <<>>))
OrdemDiagnosticosComo(substituto) ==
    Ids(FiltrarOrdenarDiagnosticos(
            ComoSeFosse(DiagnosticosArmazenados, "severidade",
                        SeveridadesConhecidas, substituto), <<>>, <<>>))
OrdemSugestoesComo(substituto) ==
    Ids(FiltrarOrdenarSugestoes(
            ComoSeFosse(SugestoesArmazenadas, "prioridade",
                        PrioridadesSugestaoConhecidas, substituto), <<>>, <<>>, <<>>))

\* An unfiltered listing of `op` that returned every stored record.
ListagemCompleta(op) ==
    /\ resposta.op = op
    /\ resposta.args.limite = LimitePadrao
    /\ \A k \in (DOMAIN resposta.args) \ {"limite"} : resposta.args[k] = <<>>

\* In the returned list, every record whose `campo` is unrecognised comes
\* after the records holding a value of `antes` and before those holding a
\* value of `depois`.
EntreOsExtremos(corpo, campo, conhecidos, antes, depois) ==
    \A u, i \in 1..Len(corpo) :
        corpo[u][campo] \notin conhecidos
        => /\ corpo[i][campo] \in antes => i < u
           /\ corpo[i][campo] \in depois => u < i

ListagemLimitadaEIdempotente ==
    [][(resposta'.op \in OperacoesDeListagem /\ resposta'.status = 200)
       => /\ Len(resposta'.corpo) <= resposta'.args.limite
          /\ disco' = disco
          /\ (resposta.op = resposta'.op /\ resposta.args = resposta'.args)
             => resposta'.corpo = resposta.corpo]_vars

\* A listing cut short by its limit: more records are stored than returned.
ListagemTruncada ==
    /\ resposta.op = "listar_correcoes"
    /\ resposta.status = 200
    /\ resposta.args.aplicada = <<>>
    /\ Len(resposta.corpo) = resposta.args.limite
    /\ Len(CorrecoesArmazenadas) > resposta.args.limite

RECURSIVE SomaValores(_)
SomaValores(contagem) ==
    IF DOMAIN contagem = {}
    THEN 0
    ELSE LET k == CHOOSE k \in DOMAIN contagem : TRUE
         IN  contagem[k] + SomaValores([x \in (DOMAIN contagem) \ {k} |-> contagem[x]])

\* C9: status() reports for each collection a total equal to its length,
\* and the category counts sum to that total.
StatusSomaOsTotais ==
    resposta.op = "obter_status"
    => /\ resposta.status = 200
       /\ resposta.corpo.tarefas.total = Len(TarefasArmazenadas)
       /\ resposta.corpo.diagnosticos.total = Len(DiagnosticosArmazenados)
       /\ resposta.corpo.correcoes.total = Len(CorrecoesArmazenadas)
       /\ resposta.corpo.sugestoes.total = Len(SugestoesArmazenadas)
       /\ SomaValores(resposta.corpo.tarefas.por_estado) = resposta.corpo.tarefas.total
       /\ SomaValores(resposta.corpo.diagnosticos.por_severidade)
             = resposta.corpo.diagnosticos.total
       /\ resposta.corpo.correcoes.aplicadas + resposta.corpo.correcoes.pendentes
             = resposta.corpo.correcoes.total
       /\ resposta.corpo.sugestoes.implementadas + resposta.corpo.sugestoes.pendentes
             = resposta.corpo.sugestoes.total

\* A status report over diagnostics of two severities, one of them held by
\* two records, one of them unrecognised.
StatusComCategoriasRepetidas ==
    /\ resposta.op = "obter_status"
    /\ resposta.status = 200
    /\ resposta.corpo.diagnosticos.total = 3
    /\ DOMAIN resposta.corpo.diagnosticos.por_severidade = {"erro", "fatal"}
    /\ resposta.corpo.diagnosticos.por_severidade["erro"] = 2

(***************************************************************************)
(* Claim about the record store, checked under SpecCarga.                  *)
(***************************************************************************)
\* C6: load never fails: for a file that is absent or whose content does
\* not parse, it returns an empty list, and the request that called it
\* completes.
CargaNuncaFalha ==
    resposta.op # "nenhuma"
    => /\ resposta.status # 500
       /\ \A arquivo \in Arquivos :
             disco[arquivo].tipo # "json"
             => carregar_dados(arquivo) = [erro |-> "nenhuma", dados |-> <<>>]

====
